---- MODULE Spec2Model ----
(***************************************************************************)
(* Model of src/browser/provider/built-in/chrome/cdp.js: the Chrome        *)
(* remote-debugging session controller (createClient, isHeadlessTab,       *)
(* closeTab, takeScreenshot, resizeWindow and their helpers).              *)
(*                                                                         *)
(* Every async function is cut at its awaits: one action starts a call and *)
(* runs it up to its first await, and one action per await resumes the     *)
(* call with the outcome of the awaited collaborator (resolved or          *)
(* rejected) and runs it up to the next await or to its end.  The          *)
(* collaborators (chrome-remote-interface, testcafe-browser-tools,         *)
(* writeFile) are the environment: what they were asked is recorded in the *)
(* trace of the call, what they answer is chosen nondeterministically.     *)
(***************************************************************************)
EXTENDS Integers, Sequences, FiniteSets, TLC

(***************************************************************************)
(* Bounds                                                                  *)
(***************************************************************************)
\* Largest viewport dimension of the model.
MaxDim == 2

\* Largest number of tabs in an answer of remoteChrome.listTabs, where every
\* answer up to a length is drawn.
MaxTabs == 2

\* Positive sizes a viewport can have.
Dims == 1..MaxDim

\* Numbers a caller can pass for a dimension, 0 included.
DimArgs == 0..MaxDim

(***************************************************************************)
(* JavaScript values                                                       *)
(***************************************************************************)
\* The value undefined (void 0): an unset property, a missing array element.
Undefined == [jstype |-> "undefined"]

\* A boolean result of a function, as a value distinct from undefined.
JSBool(b) == [jstype |-> "boolean", value |-> b]

\* obj.key, undefined when the object has no such property.
Has(obj, key) == key \in DOMAIN obj

\* a ?? b  in place of  a || b : only a missing property takes the fallback.
OrElse_Nullish(obj, key, fallback) ==
    IF Has(obj, key) THEN obj[key] ELSE fallback

\* JavaScript's  a || b  on a dimension property: obj[key] when it is truthy
\* (present and not 0), and otherwise the fallback.
OrElse(obj, key, fallback) ==
    IF Has(obj, key) /\ obj[key] # 0 THEN obj[key] ELSE fallback

\* String.prototype.indexOf on strings given as sequences of characters:
\* the 0-based position of the first occurrence, -1 if there is none.
IndexOf(s, sub) ==
    LET occ == {i \in 0..(Len(s) - Len(sub)) : SubSeq(s, i + 1, i + Len(sub)) = sub}
    IN  IF occ = {} THEN -1 ELSE CHOOSE i \in occ : \A j \in occ : i <= j

(***************************************************************************)
(* Inputs                                                                  *)
(***************************************************************************)
\* All objects with some of the given keys, each holding a value of vals.
Partial(keys, vals) == UNION {[S -> vals] : S \in SUBSET keys}

\* newDimensions of resizeWindow: width, height, both or neither.
DimensionArgs == Partial({"width", "height"}, DimArgs)

\* Device profiles of the model: a desktop device, and a mobile device with
\* scale factor 2 and its own user agent.
Devices ==
    { [mobile |-> FALSE, scaleFactor |-> 1],
      [mobile |-> TRUE, scaleFactor |-> 2, userAgent |-> "UA"] }

\* Initial dimensions a configuration may give: none, both, or a height with
\* a width of 0.
ConfigSizes == {<<>>, [width |-> MaxDim, height |-> 1], [width |-> 0, height |-> MaxDim]}

\* The run configurations of the model.  touch, userAgent, width and height
\* are optional.  width and height are read by setEmulation alone, so the
\* configurations without emulation carry one size only.
Configs ==
    {c \in {[headless |-> h, emulation |-> e] @@ device @@ touch @@ size :
                h \in BOOLEAN, e \in BOOLEAN, device \in Devices,
                touch \in Partial({"touch"}, {TRUE}),
                size \in ConfigSizes} :
        c.emulation \/ (Has(c, "width") /\ c.width = MaxDim)}

\* The session marker of the run.
BrowserId == <<"b", "1">>

\* The remote debugging port.
CdpPort == 9222

\* Answers of remoteChrome.listTabs the model draws from: no tab at all, only
\* tabs that do not match, and lists whose first match is tab 2 or tab 4.
TabLists ==
    { <<>>,
      << [id |-> 1, type |-> "page", url |-> <<"b", "2">>] >>,
      << [id |-> 1, type |-> "background_page", url |-> <<"x", "b", "1">>],
         [id |-> 2, type |-> "page", url |-> <<"x", "b", "1">>],
         [id |-> 4, type |-> "page", url |-> <<"b", "1", "x">>] >>,
      << [id |-> 4, type |-> "page", url |-> <<"b", "1", "x">>],
         [id |-> 2, type |-> "page", url |-> <<"x", "b", "1">>] >> }

\* Session markers the tab resolution is tried with.
Markers == {BrowserId, <<"1">>}

\* Addresses of tabs: every string of the marker's characters that is at most
\* one character longer than the marker.
Urls == UNION {[1..n -> {"b", "1"}] : n \in 0..(Len(BrowserId) + 1)}

\* Every answer of remoteChrome.listTabs with at most MaxTabs tabs; a tab's
\* id is its position in the list.
AllTabLists ==
    UNION {{[i \in 1..n |-> [id |-> i, type |-> kind[i][1], url |-> kind[i][2]]] :
                kind \in [1..n -> {"page", "background_page"} \X Urls]} :
           n \in 0..MaxTabs}

\* Path given to takeScreenshot.
ScreenshotPath == "shot.png"

\* The callers of the module: call 1 is the test run; the others are further
\* callers that may overlap with it.
Procs == {1, 2}

(***************************************************************************)
(* State                                                                   *)
(***************************************************************************)
VARIABLES
    runtimeInfo,  \* the object every exported function receives
    domains,      \* protocol domains enabled on the channel runtimeInfo.client
    frames        \* per caller: the call in progress or last completed

vars == <<runtimeInfo, domains, frames>>

\* A caller that has not called anything yet.
IdleFrame ==
    [op            |-> "none",
     pc            |-> "idle",
     newDimensions |-> <<>>,
     currentWidth  |-> 0,
     currentHeight |-> 0,
     newWidth      |-> 0,
     newHeight     |-> 0,
     tabs          |-> <<>>,
     tab           |-> Undefined,
     client        |-> Undefined,
     trace         |-> <<>>,
     result        |-> Undefined,
     pre           |-> Undefined]

\* The frame of a call of op that starts now; pre keeps the runtime state the
\* call found.
NewFrame(op) == [IdleFrame EXCEPT !.op = op, !.pc = "running", !.pre = runtimeInfo]

\* The call awaits collaborator rpc, asked with args.
Request(fr, pc, rpc, args) ==
    [fr EXCEPT !.pc = pc,
               !.trace = Append(@, [rpc |-> rpc, args |-> args, status |-> "pending"])]

\* The awaited collaborator has answered: status is "ok" or "failed".
Settle(fr, status) == [fr EXCEPT !.trace[Len(fr.trace)].status = status]

\* The call's promise resolves with value.
Return(fr, value) ==
    [fr EXCEPT !.pc = "done", !.result = [kind |-> "returned", value |-> value]]

\* The call's promise rejects with error.
Throw(fr, error) ==
    [fr EXCEPT !.pc = "done", !.result = [kind |-> "threw", value |-> error]]

Init ==
    /\ runtimeInfo \in
           {[browserId    |-> BrowserId,
             cdpPort      |-> CdpPort,
             config       |-> c,
             tab          |-> Undefined,
             client       |-> Undefined,
             viewportSize |-> [width |-> w, height |-> h]] :
                c \in Configs, w \in Dims, h \in Dims}
    /\ domains = {}
    /\ frames = [p \in Procs |-> IdleFrame]


\* Whether caller p may start a call: its previous call, if any, is over.
CanCall(p) == frames[p].pc \in {"idle", "done"}

\* The frame of caller p with the awaited answer recorded.
Settled(p, ok) == Settle(frames[p], IF ok THEN "ok" ELSE "failed")

(***************************************************************************)
(* setEmulationBounds and resizeWindow                                     *)
(*                                                                         *)
(* The operators of this part constrain runtimeInfo' and frames'; the      *)
(* actions that use them say what happens to domains.                      *)
(***************************************************************************)
\* setEmulationBounds as it would be with  mobile: false  written out.
EnterSetEmulationBounds_Desktop(p, fr, ri) ==
    IF ri.client = Undefined
        THEN frames' = [frames EXCEPT ![p] = Throw(fr, "TypeError")]
        ELSE frames' = [frames EXCEPT ![p] =
                Request([fr EXCEPT !.client = ri.client],
                        "setDeviceMetricsOverride", "Emulation.setDeviceMetricsOverride",
                        [width             |-> ri.viewportSize.width,
                         height            |-> ri.viewportSize.height,
                         deviceScaleFactor |-> ri.config.scaleFactor,
                         mobile            |-> FALSE,
                         fitWindow         |-> FALSE])]

\* setEmulationBounds as it would be if it skipped the overrides when there
\* is no client.
EnterSetEmulationBounds_Optional(p, fr, ri) ==
    IF ri.client = Undefined
        THEN frames' = [frames EXCEPT ![p] = Return(fr, Undefined)]
        ELSE frames' = [frames EXCEPT ![p] =
                Request([fr EXCEPT !.client = ri.client],
                        "setDeviceMetricsOverride", "Emulation.setDeviceMetricsOverride",
                        [width             |-> ri.viewportSize.width,
                         height            |-> ri.viewportSize.height,
                         deviceScaleFactor |-> ri.config.scaleFactor,
                         mobile            |-> ri.config.mobile,
                         fitWindow         |-> FALSE])]

\* setEmulationBounds up to its first await.  ri is the runtime state at the
\* call; reading client.Emulation of an unset client throws a TypeError.
EnterSetEmulationBounds(p, fr, ri) ==
    IF ri.client = Undefined
        THEN frames' = [frames EXCEPT ![p] = Throw(fr, "TypeError")]
        ELSE frames' = [frames EXCEPT ![p] =
                Request([fr EXCEPT !.client = ri.client],
                        "setDeviceMetricsOverride", "Emulation.setDeviceMetricsOverride",
                        [width             |-> ri.viewportSize.width,
                         height            |-> ri.viewportSize.height,
                         deviceScaleFactor |-> ri.config.scaleFactor,
                         mobile            |-> ri.config.mobile,
                         fitWindow         |-> FALSE])]

\* resizeWindow from the assignment of viewportSize to its next await or end.
ApplySize(p, fr) ==
    LET ri == [runtimeInfo EXCEPT
                  !.viewportSize = [width |-> fr.newWidth, height |-> fr.newHeight]]
    IN  /\ runtimeInfo' = ri
        /\ IF ri.config.emulation
              THEN EnterSetEmulationBounds(p, fr, ri)
              ELSE frames' = [frames EXCEPT ![p] = Return(fr, Undefined)]

\* resizeWindow as it would be if viewportSize were assigned before the OS
\* resize is awaited.
EnterResizeWindow_EagerUpdate(p, fr, newDimensions) ==
    LET viewportSize == runtimeInfo.viewportSize
        f == [fr EXCEPT
                !.newDimensions = newDimensions,
                !.currentWidth  = viewportSize.width,
                !.currentHeight = viewportSize.height,
                !.newWidth      = OrElse(newDimensions, "width", viewportSize.width),
                !.newHeight     = OrElse(newDimensions, "height", viewportSize.height)]
    IN  IF ~runtimeInfo.config.headless
            THEN /\ frames' = [frames EXCEPT ![p] =
                        Request(f, "browserTools.resize", "browserTools.resize",
                                [browserId     |-> runtimeInfo.browserId,
                                 currentWidth  |-> f.currentWidth,
                                 currentHeight |-> f.currentHeight,
                                 newWidth      |-> f.newWidth,
                                 newHeight     |-> f.newHeight])]
                 /\ runtimeInfo' = [runtimeInfo EXCEPT !.viewportSize =
                        [width |-> f.newWidth, height |-> f.newHeight]]
            ELSE ApplySize(p, f)

\* resizeWindow as it would be without the test of config.headless.
EnterResizeWindow_AlwaysOS(p, fr, newDimensions) ==
    LET viewportSize == runtimeInfo.viewportSize
        f == [fr EXCEPT
                !.newDimensions = newDimensions,
                !.currentWidth  = viewportSize.width,
                !.currentHeight = viewportSize.height,
                !.newWidth      = OrElse(newDimensions, "width", viewportSize.width),
                !.newHeight     = OrElse(newDimensions, "height", viewportSize.height)]
    IN  /\ frames' = [frames EXCEPT ![p] =
               Request(f, "browserTools.resize", "browserTools.resize",
                       [browserId     |-> runtimeInfo.browserId,
                        currentWidth  |-> f.currentWidth,
                        currentHeight |-> f.currentHeight,
                        newWidth      |-> f.newWidth,
                        newHeight     |-> f.newHeight])]
        /\ UNCHANGED runtimeInfo

\* resizeWindow(newDimensions, runtimeInfo) up to its first await or end.
EnterResizeWindow(p, fr, newDimensions) ==
    LET viewportSize == runtimeInfo.viewportSize
        f == [fr EXCEPT
                !.newDimensions = newDimensions,
                !.currentWidth  = viewportSize.width,
                !.currentHeight = viewportSize.height,
                !.newWidth      = OrElse(newDimensions, "width", viewportSize.width),
                !.newHeight     = OrElse(newDimensions, "height", viewportSize.height)]
    IN  IF ~runtimeInfo.config.headless
            THEN /\ frames' = [frames EXCEPT ![p] =
                        Request(f, "browserTools.resize", "browserTools.resize",
                                [browserId     |-> runtimeInfo.browserId,
                                 currentWidth  |-> f.currentWidth,
                                 currentHeight |-> f.currentHeight,
                                 newWidth      |-> f.newWidth,
                                 newHeight     |-> f.newHeight])]
                 /\ UNCHANGED runtimeInfo
            ELSE ApplySize(p, f)

\* A caller calls resizeWindow(newDimensions, runtimeInfo).
CallResizeWindow(p, newDimensions) ==
    /\ CanCall(p)
    /\ EnterResizeWindow(p, NewFrame("resizeWindow"), newDimensions)
    /\ UNCHANGED domains

\* resizeWindow as it would be if a rejection of browserTools.resize were
\* caught and the remaining steps run all the same.
ResumeOSResize_BestEffort(p) ==
    /\ frames[p].pc = "browserTools.resize"
    /\ \E ok \in BOOLEAN : ApplySize(p, Settled(p, ok))
    /\ UNCHANGED domains

\* browserTools.resize has answered.  A rejection ends the call: nothing
\* catches it in resizeWindow, setEmulation or createClient.
ResumeOSResize(p) ==
    /\ frames[p].pc = "browserTools.resize"
    /\ \E ok \in BOOLEAN :
          IF ok
              THEN ApplySize(p, Settled(p, ok))
              ELSE /\ frames' = [frames EXCEPT ![p] = Throw(Settled(p, ok), "ResizeError")]
                   /\ UNCHANGED runtimeInfo
    /\ UNCHANGED domains

\* resizeWindow as it would be if a rejected device-metrics override put the
\* old size back into viewportSize.
ResumeDeviceMetrics_Rollback(p) ==
    /\ frames[p].pc = "setDeviceMetricsOverride"
    /\ \E ok \in BOOLEAN :
          IF ok
              THEN /\ frames' = [frames EXCEPT ![p] =
                          Request(Settled(p, ok), "setVisibleSize", "Emulation.setVisibleSize",
                                  [width  |-> runtimeInfo.viewportSize.width,
                                   height |-> runtimeInfo.viewportSize.height])]
                   /\ UNCHANGED runtimeInfo
              ELSE /\ frames' = [frames EXCEPT ![p] = Throw(Settled(p, ok), "ProtocolError")]
                   /\ runtimeInfo' = [runtimeInfo EXCEPT !.viewportSize =
                          [width |-> frames[p].currentWidth, height |-> frames[p].currentHeight]]
    /\ UNCHANGED domains

\* setEmulationBounds as it would be if setVisibleSize were given the size
\* resizeWindow found, not the one it set.
ResumeDeviceMetrics_StaleVisibleSize(p) ==
    /\ frames[p].pc = "setDeviceMetricsOverride"
    /\ \E ok \in BOOLEAN :
          IF ok
              THEN frames' = [frames EXCEPT ![p] =
                      Request(Settled(p, ok), "setVisibleSize", "Emulation.setVisibleSize",
                              [width  |-> frames[p].currentWidth,
                               height |-> frames[p].currentHeight])]
              ELSE frames' = [frames EXCEPT ![p] = Throw(Settled(p, ok), "ProtocolError")]
    /\ UNCHANGED <<runtimeInfo, domains>>

\* Emulation.setDeviceMetricsOverride has answered; setVisibleSize is asked
\* with what viewportSize holds now.
ResumeDeviceMetrics(p) ==
    /\ frames[p].pc = "setDeviceMetricsOverride"
    /\ \E ok \in BOOLEAN :
          IF ok
              THEN frames' = [frames EXCEPT ![p] =
                      Request(Settled(p, ok), "setVisibleSize", "Emulation.setVisibleSize",
                              [width  |-> runtimeInfo.viewportSize.width,
                               height |-> runtimeInfo.viewportSize.height])]
              ELSE frames' = [frames EXCEPT ![p] = Throw(Settled(p, ok), "ProtocolError")]
    /\ UNCHANGED <<runtimeInfo, domains>>

\* Emulation.setVisibleSize has answered: the last statement of
\* setEmulationBounds, of resizeWindow, of setEmulation and of createClient.
ResumeVisibleSize(p) ==
    /\ frames[p].pc = "setVisibleSize"
    /\ \E ok \in BOOLEAN :
          frames' = [frames EXCEPT ![p] =
              IF ok THEN Return(Settled(p, ok), Undefined)
                    ELSE Throw(Settled(p, ok), "ProtocolError")]
    /\ UNCHANGED <<runtimeInfo, domains>>

(***************************************************************************)
(* getActiveTab, setEmulation and createClient                             *)
(***************************************************************************)
\* getActiveTab with  indexOf(browserId) > 0  in place of  > -1 .
getActiveTab_PositiveIndex(tabs, browserId) ==
    LET matching == SelectSeq(tabs,
                        LAMBDA t : t.type = "page" /\ IndexOf(t.url, browserId) > 0)
    IN  IF matching = <<>> THEN Undefined ELSE matching[1]

\* The tab getActiveTab resolves from the answer of listTabs: the first tab
\* of type page whose url contains browserId, undefined if there is none.
getActiveTab(tabs, browserId) ==
    LET matching == SelectSeq(tabs,
                        LAMBDA t : t.type = "page" /\ IndexOf(t.url, browserId) > -1)
    IN  IF matching = <<>> THEN Undefined ELSE matching[1]

\* setEmulation as it would be if it passed the configured width alone.
ConfigDimensions_WidthOnly(config) ==
    [k \in {"width"} \cap DOMAIN config |-> config[k]]

\* The dimensions setEmulation passes to resizeWindow: config.width and
\* config.height, each undefined when the configuration does not set it.
ConfigDimensions(config) ==
    [k \in {"width", "height"} \cap DOMAIN config |-> config[k]]

\* setEmulation from the test of config.touch to its next await.
AfterUserAgent(p, fr) ==
    LET config == runtimeInfo.config
    IN  IF Has(config, "touch")
            THEN /\ frames' = [frames EXCEPT ![p] =
                        Request(fr, "setTouchEmulationEnabled",
                                "Emulation.setTouchEmulationEnabled",
                                [enabled       |-> config.touch,
                                 configuration |-> IF config.mobile THEN "mobile"
                                                                    ELSE "desktop"])]
                 /\ UNCHANGED runtimeInfo
            ELSE EnterResizeWindow(p, fr, ConfigDimensions(config))

\* setEmulation(runtimeInfo) up to its first await.
EnterSetEmulation(p, fr) ==
    LET config == runtimeInfo.config
        f      == [fr EXCEPT !.client = runtimeInfo.client]
    IN  IF Has(config, "userAgent")
            THEN /\ frames' = [frames EXCEPT ![p] =
                        Request(f, "setUserAgentOverride", "Network.setUserAgentOverride",
                                [userAgent |-> config.userAgent])]
                 /\ UNCHANGED runtimeInfo
            ELSE AfterUserAgent(p, f)

\* A caller calls createClient(runtimeInfo): getActiveTab asks for the tabs.
CallCreateClient(p) ==
    /\ CanCall(p)
    /\ frames' = [frames EXCEPT ![p] =
            Request(NewFrame("createClient"), "listTabs", "remoteChrome.listTabs",
                    [port |-> runtimeInfo.cdpPort])]
    /\ UNCHANGED <<runtimeInfo, domains>>

\* createClient as it would be if the resolved tab were stored in runtimeInfo
\* before the channel to it is opened.
ResumeListTabs_StoresTab(p) ==
    /\ frames[p].pc = "listTabs"
    /\ \/ /\ frames' = [frames EXCEPT ![p] = Throw(Settled(p, FALSE), "ProtocolError")]
          /\ UNCHANGED runtimeInfo
       \/ \E tabs \in TabLists :
             LET tab == getActiveTab(tabs, runtimeInfo.browserId)
                 f   == [Settled(p, TRUE) EXCEPT !.tab = tab]
             IN  /\ frames' = [frames EXCEPT ![p] =
                         IF tab = Undefined
                             THEN Return(f, Undefined)
                             ELSE Request(f, "connect", "remoteChrome",
                                          [target |-> tab, port |-> runtimeInfo.cdpPort])]
                 /\ runtimeInfo' = [runtimeInfo EXCEPT !.tab = tab]
    /\ UNCHANGED domains

\* remoteChrome.listTabs has answered: rejected, or with a list of tabs.
\* Without a matching tab createClient returns; with one it opens the channel.
ResumeListTabs(p) ==
    /\ frames[p].pc = "listTabs"
    /\ \/ frames' = [frames EXCEPT ![p] = Throw(Settled(p, FALSE), "ProtocolError")]
       \/ \E tabs \in TabLists :
             LET tab == getActiveTab(tabs, runtimeInfo.browserId)
                 f   == [Settled(p, TRUE) EXCEPT !.tab = tab]
             IN  frames' = [frames EXCEPT ![p] =
                     IF tab = Undefined
                         THEN Return(f, Undefined)
                         ELSE Request(f, "connect", "remoteChrome",
                                      [target |-> tab, port |-> runtimeInfo.cdpPort])]
    /\ UNCHANGED <<runtimeInfo, domains>>

\* createClient without the try/catch around remoteChrome.
ResumeConnect_Propagate(p) ==
    /\ frames[p].pc = "connect"
    /\ \E ok \in BOOLEAN :
          IF ok
              THEN LET client == [target |-> frames[p].tab.id]
                   IN  /\ runtimeInfo' = [runtimeInfo EXCEPT !.tab    = frames[p].tab,
                                                             !.client = client]
                       /\ domains' = {}
                       /\ frames' = [frames EXCEPT ![p] =
                              Request([Settled(p, ok) EXCEPT !.client = client],
                                      "Page.enable", "Page.enable", <<>>)]
              ELSE /\ frames' = [frames EXCEPT ![p] = Throw(Settled(p, ok), "ConnectError")]
                   /\ UNCHANGED <<runtimeInfo, domains>>

\* remoteChrome({ target, port }) has answered.  A rejection is caught and
\* createClient returns; otherwise tab and client are stored and Page.enable
\* is asked on the new channel, on which no domain is enabled yet.
ResumeConnect(p) ==
    /\ frames[p].pc = "connect"
    /\ \E ok \in BOOLEAN :
          IF ok
              THEN LET client == [target |-> frames[p].tab.id]
                   IN  /\ runtimeInfo' = [runtimeInfo EXCEPT !.tab    = frames[p].tab,
                                                             !.client = client]
                       /\ domains' = {}
                       /\ frames' = [frames EXCEPT ![p] =
                              Request([Settled(p, ok) EXCEPT !.client = client],
                                      "Page.enable", "Page.enable", <<>>)]
              ELSE /\ frames' = [frames EXCEPT ![p] = Return(Settled(p, ok), Undefined)]
                   /\ UNCHANGED <<runtimeInfo, domains>>

\* createClient as it would be if a rejection of Page.enable were swallowed.
ResumePageEnable_Swallow(p) ==
    /\ frames[p].pc = "Page.enable"
    /\ \E ok \in BOOLEAN :
          /\ domains' = IF ok THEN domains \cup {"Page"} ELSE domains
          /\ frames' = [frames EXCEPT ![p] =
                 Request(Settled(p, ok), "Network.enable", "Network.enable", <<>>)]
    /\ UNCHANGED runtimeInfo

\* client.Page.enable() has answered.
ResumePageEnable(p) ==
    /\ frames[p].pc = "Page.enable"
    /\ \E ok \in BOOLEAN :
          IF ok
              THEN /\ domains' = domains \cup {"Page"}
                   /\ frames' = [frames EXCEPT ![p] =
                          Request(Settled(p, ok), "Network.enable", "Network.enable", <<>>)]
              ELSE /\ frames' = [frames EXCEPT ![p] = Throw(Settled(p, ok), "ProtocolError")]
                   /\ UNCHANGED domains
    /\ UNCHANGED runtimeInfo

\* createClient as it would be without the test of config.emulation.
ResumeNetworkEnable_AlwaysEmulate(p) ==
    /\ frames[p].pc = "Network.enable"
    /\ \E ok \in BOOLEAN :
          IF ok
              THEN /\ domains' = domains \cup {"Network"}
                   /\ EnterSetEmulation(p, Settled(p, ok))
              ELSE /\ frames' = [frames EXCEPT ![p] = Throw(Settled(p, ok), "ProtocolError")]
                   /\ UNCHANGED <<runtimeInfo, domains>>

\* client.Network.enable() has answered; with config.emulation the call goes
\* on into setEmulation.
ResumeNetworkEnable(p) ==
    /\ frames[p].pc = "Network.enable"
    /\ \E ok \in BOOLEAN :
          IF ok
              THEN /\ domains' = domains \cup {"Network"}
                   /\ IF runtimeInfo.config.emulation
                         THEN EnterSetEmulation(p, Settled(p, ok))
                         ELSE /\ frames' = [frames EXCEPT ![p] =
                                     Return(Settled(p, ok), Undefined)]
                              /\ UNCHANGED runtimeInfo
              ELSE /\ frames' = [frames EXCEPT ![p] = Throw(Settled(p, ok), "ProtocolError")]
                   /\ UNCHANGED <<runtimeInfo, domains>>

\* setEmulation as it would be if a rejected user-agent override were caught
\* and the remaining overrides applied all the same.
ResumeUserAgent_Continue(p) ==
    /\ frames[p].pc = "setUserAgentOverride"
    /\ \E ok \in BOOLEAN : AfterUserAgent(p, Settled(p, ok))
    /\ UNCHANGED domains

\* client.Network.setUserAgentOverride has answered.
ResumeUserAgent(p) ==
    /\ frames[p].pc = "setUserAgentOverride"
    /\ \E ok \in BOOLEAN :
          IF ok
              THEN AfterUserAgent(p, Settled(p, ok))
              ELSE /\ frames' = [frames EXCEPT ![p] = Throw(Settled(p, ok), "ProtocolError")]
                   /\ UNCHANGED runtimeInfo
    /\ UNCHANGED domains

\* client.Emulation.setTouchEmulationEnabled has answered; setEmulation goes
\* on into resizeWindow with the configured dimensions.
ResumeTouch(p) ==
    /\ frames[p].pc = "setTouchEmulationEnabled"
    /\ \E ok \in BOOLEAN :
          IF ok
              THEN EnterResizeWindow(p, Settled(p, ok), ConfigDimensions(runtimeInfo.config))
              ELSE /\ frames' = [frames EXCEPT ![p] = Throw(Settled(p, ok), "ProtocolError")]
                   /\ UNCHANGED runtimeInfo
    /\ UNCHANGED domains

(***************************************************************************)
(* getActiveTab called on its own                                          *)
(***************************************************************************)
\* getActiveTab(cdpPort, browserId) is called: it asks for the tabs.
CallGetActiveTab(p) ==
    /\ CanCall(p)
    /\ frames' = [frames EXCEPT ![p] =
            Request(NewFrame("getActiveTab"), "getActiveTab", "remoteChrome.listTabs",
                    [port |-> runtimeInfo.cdpPort])]
    /\ UNCHANGED <<runtimeInfo, domains>>

\* remoteChrome.listTabs has answered getActiveTab: rejected, or with one of
\* the lists of answers; the tab resolved from the list is returned.
ResumeGetActiveTab(p, answers) ==
    /\ frames[p].pc = "getActiveTab"
    /\ \/ frames' = [frames EXCEPT ![p] = Throw(Settled(p, FALSE), "ProtocolError")]
       \/ \E tabs \in answers :
             LET tab == getActiveTab(tabs, runtimeInfo.browserId)
             IN  frames' = [frames EXCEPT ![p] =
                     Return([Settled(p, TRUE) EXCEPT !.tabs = tabs, !.tab = tab], tab)]
    /\ UNCHANGED <<runtimeInfo, domains>>

(***************************************************************************)
(* isHeadlessTab, closeTab and takeScreenshot                              *)
(***************************************************************************)
\* isHeadlessTab as it would be if it returned config.headless alone.
isHeadlessTab_IgnoresTab(tab, config) == JSBool(config.headless)

\* isHeadlessTab({ tab, config }):  tab && config.headless .  The && yields
\* its left operand when that is falsy (an unset tab is undefined) and its
\* right operand otherwise.
isHeadlessTab(tab, config) ==
    IF tab = Undefined THEN Undefined ELSE JSBool(config.headless)

\* A caller calls isHeadlessTab(runtimeInfo); the function is synchronous.
CallIsHeadlessTab(p) ==
    /\ CanCall(p)
    /\ frames' = [frames EXCEPT ![p] =
            Return(NewFrame("isHeadlessTab"),
                   isHeadlessTab(runtimeInfo.tab, runtimeInfo.config))]
    /\ UNCHANGED <<runtimeInfo, domains>>

\* A caller calls closeTab(runtimeInfo); tab.id of an unset tab throws.
CallCloseTab(p) ==
    /\ CanCall(p)
    /\ frames' = [frames EXCEPT ![p] =
            IF runtimeInfo.tab = Undefined
                THEN Throw(NewFrame("closeTab"), "TypeError")
                ELSE Request(NewFrame("closeTab"), "closeTab", "remoteChrome.closeTab",
                             [id |-> runtimeInfo.tab.id, port |-> runtimeInfo.cdpPort])]
    /\ UNCHANGED <<runtimeInfo, domains>>

\* closeTab as it would be if it forgot the tab once it is closed.
ResumeCloseTab_ForgetsTab(p) ==
    /\ frames[p].pc = "closeTab"
    /\ \E ok \in BOOLEAN :
          /\ frames' = [frames EXCEPT ![p] =
                 IF ok THEN Return(Settled(p, ok), Undefined)
                       ELSE Throw(Settled(p, ok), "ProtocolError")]
          /\ runtimeInfo' = IF ok THEN [runtimeInfo EXCEPT !.tab = Undefined]
                                  ELSE runtimeInfo
    /\ UNCHANGED domains

\* remoteChrome.closeTab has answered.
ResumeCloseTab(p) ==
    /\ frames[p].pc = "closeTab"
    /\ \E ok \in BOOLEAN :
          frames' = [frames EXCEPT ![p] =
              IF ok THEN Return(Settled(p, ok), Undefined)
                    ELSE Throw(Settled(p, ok), "ProtocolError")]
    /\ UNCHANGED <<runtimeInfo, domains>>

\* A caller calls takeScreenshot(path, runtimeInfo); client.Page of an unset
\* client throws before anything is asked.
CallTakeScreenshot(p) ==
    /\ CanCall(p)
    /\ frames' = [frames EXCEPT ![p] =
            IF runtimeInfo.client = Undefined
                THEN Throw(NewFrame("takeScreenshot"), "TypeError")
                ELSE Request([NewFrame("takeScreenshot") EXCEPT !.client = runtimeInfo.client],
                             "captureScreenshot", "Page.captureScreenshot",
                             [fromSurface |-> runtimeInfo.config.headless])]
    /\ UNCHANGED <<runtimeInfo, domains>>

\* takeScreenshot as it would be if it wrote the file whatever the capture
\* answered.
ResumeCapture_WritesAnyway(p) ==
    /\ frames[p].pc = "captureScreenshot"
    /\ \E ok \in BOOLEAN :
          frames' = [frames EXCEPT ![p] =
              Request(Settled(p, ok), "writeFile", "writeFile",
                      [path |-> ScreenshotPath, encoding |-> "base64"])]
    /\ UNCHANGED <<runtimeInfo, domains>>

\* client.Page.captureScreenshot has answered; the data is written to path.
ResumeCapture(p) ==
    /\ frames[p].pc = "captureScreenshot"
    /\ \E ok \in BOOLEAN :
          frames' = [frames EXCEPT ![p] =
              IF ok THEN Request(Settled(p, ok), "writeFile", "writeFile",
                                 [path |-> ScreenshotPath, encoding |-> "base64"])
                    ELSE Throw(Settled(p, ok), "ProtocolError")]
    /\ UNCHANGED <<runtimeInfo, domains>>

\* writeFile has answered.
ResumeWriteFile(p) ==
    /\ frames[p].pc = "writeFile"
    /\ \E ok \in BOOLEAN :
          frames' = [frames EXCEPT ![p] =
              IF ok THEN Return(Settled(p, ok), Undefined)
                    ELSE Throw(Settled(p, ok), "IOError")]
    /\ UNCHANGED <<runtimeInfo, domains>>

(***************************************************************************)
(* Specification: the test run issues its calls one at a time              *)
(***************************************************************************)
\* One step of caller p.
Step(p) ==
    \/ CallCreateClient(p)
    \/ ResumeListTabs(p)
    \/ ResumeConnect(p)
    \/ ResumePageEnable(p)
    \/ ResumeNetworkEnable(p)
    \/ ResumeUserAgent(p)
    \/ ResumeTouch(p)
    \/ \E newDimensions \in DimensionArgs : CallResizeWindow(p, newDimensions)
    \/ ResumeOSResize(p)
    \/ ResumeDeviceMetrics(p)
    \/ ResumeVisibleSize(p)
    \/ CallIsHeadlessTab(p)
    \/ CallCloseTab(p)
    \/ ResumeCloseTab(p)
    \/ CallTakeScreenshot(p)
    \/ ResumeCapture(p)
    \/ ResumeWriteFile(p)

Next == Step(1)

Spec == Init /\ [][Next]_vars

(***************************************************************************)
(* Specification of the tab resolution: getActiveTab on every list of tabs *)
(***************************************************************************)
\* A session that has not connected, with any of the markers.
InitTabs ==
    /\ runtimeInfo \in
           {[browserId    |-> marker,
             cdpPort      |-> CdpPort,
             config       |-> [headless |-> FALSE, emulation |-> FALSE,
                               mobile |-> FALSE, scaleFactor |-> 1],
             tab          |-> Undefined,
             client       |-> Undefined,
             viewportSize |-> [width |-> 1, height |-> 1]] : marker \in Markers}
    /\ domains = {}
    /\ frames = [p \in Procs |-> IdleFrame]

NextTabs ==
    \/ CallGetActiveTab(1)
    \/ ResumeGetActiveTab(1, AllTabLists)

SpecTabs == InitTabs /\ [][NextTabs]_vars

(***************************************************************************)
(* Specification of overlapping calls: two callers call resizeWindow once  *)
(* each on one connected session, and their calls interleave at the awaits *)
(***************************************************************************)
\* The configurations of the overlapping calls: with and without a window,
\* with and without emulation.
ConcConfigs ==
    {c \in Configs : ~c.mobile /\ ~Has(c, "touch") /\ Has(c, "width") /\ c.width = MaxDim}

\* A session createClient has connected to the first matching tab of a list.
InitConc ==
    /\ runtimeInfo \in
           {[browserId    |-> BrowserId,
             cdpPort      |-> CdpPort,
             config       |-> c,
             tab          |-> [id |-> 2, type |-> "page", url |-> <<"x", "b", "1">>],
             client       |-> [target |-> 2],
             viewportSize |-> [width |-> w, height |-> h]] :
                c \in ConcConfigs, w \in Dims, h \in Dims}
    /\ domains = {"Page", "Network"}
    /\ frames = [p \in Procs |-> IdleFrame]

\* Caller p, which has called nothing yet, calls resizeWindow.
CallResizeOnce(p, newDimensions) ==
    /\ frames[p].pc = "idle"
    /\ CallResizeWindow(p, newDimensions)

NextConc ==
    \E p \in Procs :
        \/ \E newDimensions \in DimensionArgs : CallResizeOnce(p, newDimensions)
        \/ ResumeOSResize(p)
        \/ ResumeDeviceMetrics(p)
        \/ ResumeVisibleSize(p)

SpecConc == InitConc /\ [][NextConc]_vars

(***************************************************************************)
(* Vocabulary of the properties                                            *)
(***************************************************************************)
OSResize      == "browserTools.resize"
DeviceMetrics == "Emulation.setDeviceMetricsOverride"
VisibleSize   == "Emulation.setVisibleSize"
Connect       == "remoteChrome"

\* The call of frame fr has asked collaborator rpc.
Asked(fr, rpc) == \E i \in DOMAIN fr.trace : fr.trace[i].rpc = rpc

\* The call of frame fr has asked collaborator rpc and got this answer.
Answered(fr, rpc, status) ==
    \E i \in DOMAIN fr.trace : fr.trace[i].rpc = rpc /\ fr.trace[i].status = status

\* The call of frame fr is over.
Over(fr) == fr.pc = "done"

Returned(fr) == Over(fr) /\ fr.result.kind = "returned"

Threw(fr) == Over(fr) /\ fr.result.kind = "threw"

\* The size resizeWindow computed for the call of frame fr.
NewSize(fr) == [width |-> fr.newWidth, height |-> fr.newHeight]

\* The size viewportSize held when resizeWindow was entered.
OldSize(fr) == [width |-> fr.currentWidth, height |-> fr.currentHeight]

(***************************************************************************)
(* C1                                                                      *)
(***************************************************************************)
\* C1 as stated: when browserTools.resize fails, the call still sets
\* viewportSize to (newWidth, newHeight) and, with emulation, still asks for
\* the device-metrics and visible-size overrides.
C1_BestEffortAfterOSFailure ==
    \A p \in Procs :
        (Over(frames[p]) /\ Answered(frames[p], OSResize, "failed")) =>
            /\ runtimeInfo.viewportSize = NewSize(frames[p])
            /\ runtimeInfo.config.emulation =>
                   (Asked(frames[p], DeviceMetrics) /\ Asked(frames[p], VisibleSize))

\* C1 amended: when browserTools.resize fails, the call ends there with the
\* failure: viewportSize keeps the value it had when resizeWindow was entered,
\* and neither override is asked for.
C1_OSFailureAborts ==
    \A p \in Procs :
        Answered(frames[p], OSResize, "failed") =>
            /\ Threw(frames[p])
            /\ frames[p].trace[Len(frames[p].trace)].rpc = OSResize
            /\ runtimeInfo.viewportSize = OldSize(frames[p])
            /\ ~Asked(frames[p], DeviceMetrics)
            /\ ~Asked(frames[p], VisibleSize)

\* A resizeWindow that asked for another size, with emulation, whose OS
\* resize failed.
C1_Witness ==
    /\ frames[1].op = "resizeWindow"
    /\ Answered(frames[1], OSResize, "failed")
    /\ runtimeInfo.config.emulation
    /\ runtimeInfo.client # Undefined
    /\ NewSize(frames[1]) # OldSize(frames[1])

(***************************************************************************)
(* C2                                                                      *)
(***************************************************************************)
\* C2 as stated: when a push a call made downstream has failed, viewportSize
\* holds after the call what it held before.
C2_FailedPushKeepsSize ==
    \A p \in Procs :
        (Over(frames[p]) /\ frames[p].op = "resizeWindow"
            /\ \E status \in {"failed"} :
                  \/ Answered(frames[p], OSResize, status)
                  \/ Answered(frames[p], DeviceMetrics, status)
                  \/ Answered(frames[p], VisibleSize, status)) =>
            runtimeInfo.viewportSize = frames[p].pre.viewportSize

\* C2 amended: viewportSize is what it was before the call when the OS resize
\* failed; when the device-metrics or the visible-size override failed it
\* holds the new size, which is not rolled back.
C2_SizeAfterFailedPush ==
    \A p \in Procs :
        Over(frames[p]) =>
            /\ Answered(frames[p], OSResize, "failed") =>
                   runtimeInfo.viewportSize = frames[p].pre.viewportSize
            /\ (Answered(frames[p], DeviceMetrics, "failed")
                    \/ Answered(frames[p], VisibleSize, "failed")) =>
                   runtimeInfo.viewportSize = NewSize(frames[p])

\* A resizeWindow to another size whose device-metrics override failed.
C2_Witness ==
    /\ frames[1].op = "resizeWindow"
    /\ Over(frames[1])
    /\ Answered(frames[1], DeviceMetrics, "failed")
    /\ runtimeInfo.viewportSize # frames[1].pre.viewportSize

(***************************************************************************)
(* C3                                                                      *)
(***************************************************************************)
\* resizeWindow({ width: w }) has returned in a session with a window and
\* with emulation.
WidthOnlyResize(fr) ==
    /\ fr.op = "resizeWindow"
    /\ Returned(fr)
    /\ DOMAIN fr.newDimensions = {"width"}
    /\ ~runtimeInfo.config.headless
    /\ runtimeInfo.config.emulation

\* C3 as stated: for every width w, 0 included, resizeWindow({ width: w })
\* leaves the height as it was and sets the width to exactly w.
C3_WidthOnlyAnyWidth ==
    \A p \in Procs :
        WidthOnlyResize(frames[p]) =>
            /\ runtimeInfo.viewportSize.height = frames[p].pre.viewportSize.height
            /\ runtimeInfo.viewportSize.width = frames[p].newDimensions.width

\* The value resizeWindow(newDimensions) is to give dimension key: the one
\* asked for unless it is omitted or 0, and then the one before the call.
Expected(fr, key) ==
    IF key \in DOMAIN fr.newDimensions /\ fr.newDimensions[key] # 0
        THEN fr.newDimensions[key]
        ELSE fr.pre.viewportSize[key]

\* C3 amended: for every width w other than 0, resizeWindow({ width: w })
\* leaves the height as it was and sets the width to exactly w; in every
\* completed resizeWindow a dimension that is omitted or 0, and only such a
\* dimension, keeps its current value.
C3_WidthOnlyNonZero ==
    \A p \in Procs :
        /\ (WidthOnlyResize(frames[p]) /\ frames[p].newDimensions.width # 0) =>
              /\ runtimeInfo.viewportSize.height = frames[p].pre.viewportSize.height
              /\ runtimeInfo.viewportSize.width = frames[p].newDimensions.width
        /\ (frames[p].op = "resizeWindow" /\ Returned(frames[p])
                /\ ~runtimeInfo.config.headless /\ runtimeInfo.config.emulation) =>
              \A key \in {"width", "height"} :
                  runtimeInfo.viewportSize[key] = Expected(frames[p], key)

\* A width-only resize to a width other than the current one has returned.
C3_Witness ==
    /\ WidthOnlyResize(frames[1])
    /\ frames[1].newDimensions.width \notin {0, frames[1].pre.viewportSize.width}
    /\ runtimeInfo.viewportSize.width = frames[1].newDimensions.width

(***************************************************************************)
(* C4                                                                      *)
(***************************************************************************)
BothDomains == {"Page", "Network"}

\* C4 as stated: whenever runtimeInfo.client is set, Page and Network have
\* been enabled on it.
C4_ClientImpliesDomains ==
    runtimeInfo.client # Undefined => domains = BothDomains

\* C4 amended: whenever createClient has returned normally after opening the
\* channel, Page and Network have been enabled on it; while an enable call is
\* pending, or after one has failed, the channel is already in runtimeInfo.
C4_ReturnedClientHasDomains ==
    \A p \in Procs :
        /\ (frames[p].op = "createClient" /\ Returned(frames[p])
                /\ Answered(frames[p], Connect, "ok")) =>
               (runtimeInfo.client # Undefined /\ domains = BothDomains)
        /\ frames[p].pc \in {"Page.enable", "Network.enable"} =>
               (runtimeInfo.client # Undefined /\ domains # BothDomains)

\* createClient has returned normally with a channel, without emulation.
C4_Witness ==
    /\ frames[1].op = "createClient"
    /\ Returned(frames[1])
    /\ Answered(frames[1], Connect, "ok")
    /\ ~runtimeInfo.config.emulation
    /\ domains = BothDomains

(***************************************************************************)
(* C5                                                                      *)
(***************************************************************************)
\* createClient is over and either found no matching tab or failed to open
\* the channel to the tab it found.
NoChannel(fr) ==
    /\ fr.op = "createClient"
    /\ Over(fr)
    /\ \/ Answered(fr, Connect, "failed")
       \/ Answered(fr, "remoteChrome.listTabs", "ok") /\ fr.tab = Undefined

\* C5: a failure to open the channel, like the absence of a matching tab,
\* never leaves createClient as an exception: the call returns, it has set
\* neither client nor tab (both are unset on a session that had neither), it
\* has left viewportSize alone, and it has asked for nothing but the tab list
\* and the channel.
C5_ConnectFailureIsAbsence ==
    \A p \in Procs :
        NoChannel(frames[p]) =>
            /\ Returned(frames[p])
            /\ runtimeInfo.client = frames[p].pre.client
            /\ runtimeInfo.tab = frames[p].pre.tab
            /\ frames[p].pre.client = Undefined =>
                   (runtimeInfo.client = Undefined /\ runtimeInfo.tab = Undefined)
            /\ runtimeInfo.viewportSize = frames[p].pre.viewportSize
            /\ \A i \in DOMAIN frames[p].trace :
                   frames[p].trace[i].rpc \in {"remoteChrome.listTabs", Connect}

\* The first createClient of a session failed to open the channel.
C5_Witness ==
    /\ frames[1].op = "createClient"
    /\ Answered(frames[1], Connect, "failed")
    /\ frames[1].pre.client = Undefined
    /\ runtimeInfo.client = Undefined

(***************************************************************************)
(* C6                                                                      *)
(***************************************************************************)
\* C6: in every state runtimeInfo.client is set exactly when runtimeInfo.tab
\* is, the channel is the one opened to that tab, and a session that had no
\* channel has one exactly when the connection attempt of its createClient
\* has succeeded.
C6_ClientIffTab ==
    /\ runtimeInfo.client = Undefined <=> runtimeInfo.tab = Undefined
    /\ runtimeInfo.client # Undefined =>
           runtimeInfo.client.target = runtimeInfo.tab.id
    /\ \A p \in Procs :
           (frames[p].op = "createClient" /\ frames[p].pre.client = Undefined) =>
               (runtimeInfo.client # Undefined <=> Answered(frames[p], Connect, "ok"))

\* A call has failed on a session whose tab and client are set.
C6_Witness ==
    /\ runtimeInfo.client # Undefined
    /\ runtimeInfo.tab # Undefined
    /\ frames[1].op \in {"resizeWindow", "takeScreenshot", "closeTab"}
    /\ Threw(frames[1])

(***************************************************************************)
(* C7                                                                      *)
(***************************************************************************)
\* The call of frame fr is one of op that found no client in runtimeInfo.
WithoutClient(fr, op) == fr.op = op /\ fr.pre.client = Undefined

\* C7 as stated: without a client, resizeWindow and takeScreenshot fail
\* without asking any collaborator and without changing viewportSize.
C7_FailFastWithoutClient ==
    \A p \in Procs :
        (WithoutClient(frames[p], "resizeWindow")
            \/ WithoutClient(frames[p], "takeScreenshot")) =>
            /\ frames[p].trace = <<>>
            /\ Threw(frames[p])
            /\ runtimeInfo.viewportSize = frames[p].pre.viewportSize

\* C7 amended: without a client takeScreenshot fails at once, asking no
\* collaborator and changing nothing.  resizeWindow does not look at the
\* client: it asks for the OS resize when the session is not headless, sets
\* viewportSize when that succeeded, and fails only then and only with
\* emulation; it asks for no protocol RPC and writes no file.
C7_WithoutClient ==
    \A p \in Procs :
        /\ WithoutClient(frames[p], "takeScreenshot") =>
              /\ Threw(frames[p])
              /\ frames[p].trace = <<>>
              /\ runtimeInfo = frames[p].pre
        /\ WithoutClient(frames[p], "resizeWindow") =>
              /\ \A i \in DOMAIN frames[p].trace : frames[p].trace[i].rpc = OSResize
              /\ runtimeInfo.config.headless <=> frames[p].trace = <<>>
              /\ (Over(frames[p]) /\ ~Answered(frames[p], OSResize, "failed")) =>
                    /\ runtimeInfo.viewportSize = NewSize(frames[p])
                    /\ IF runtimeInfo.config.emulation
                          THEN Threw(frames[p]) /\ frames[p].result.value = "TypeError"
                          ELSE Returned(frames[p])

\* resizeWindow without a client has resized the window and changed
\* viewportSize before it failed.
C7_Witness ==
    /\ WithoutClient(frames[1], "resizeWindow")
    /\ Threw(frames[1])
    /\ Answered(frames[1], OSResize, "ok")
    /\ runtimeInfo.viewportSize # frames[1].pre.viewportSize

(***************************************************************************)
(* C8                                                                      *)
(***************************************************************************)
\* What browserTools.resize is asked by the call of frame fr.
OSResizeArgs(fr) ==
    [browserId     |-> runtimeInfo.browserId,
     currentWidth  |-> fr.currentWidth,
     currentHeight |-> fr.currentHeight,
     newWidth      |-> fr.newWidth,
     newHeight     |-> fr.newHeight]

\* What Emulation.setDeviceMetricsOverride is asked by the call of frame fr.
DeviceMetricsArgs(fr) ==
    [width             |-> fr.newWidth,
     height            |-> fr.newHeight,
     deviceScaleFactor |-> runtimeInfo.config.scaleFactor,
     mobile            |-> runtimeInfo.config.mobile,
     fitWindow         |-> FALSE]

\* C8: the steps of one resizeWindow are sequential.  The OS resize is asked
\* with (old size) -> (new size) while viewportSize holds the old size, and
\* nothing else is asked while it is pending; viewportSize changes only once
\* it has succeeded; the device-metrics override is asked after that, with
\* viewportSize holding the new size, with the new size, the configured
\* scaleFactor and mobile and fitWindow false; the visible-size override is
\* asked only after the device-metrics override has succeeded.
C8_ResizeStepsInOrder ==
    \A p \in Procs :
        LET fr == frames[p]
            t  == fr.trace
        IN  fr.newWidth # 0 =>
              /\ ~runtimeInfo.config.headless =>
                     \E i \in DOMAIN t : t[i].rpc = OSResize /\ t[i].args = OSResizeArgs(fr)
              /\ \A i \in DOMAIN t :
                    /\ t[i].rpc = OSResize =>
                          /\ t[i].args = OSResizeArgs(fr)
                          /\ t[i].status # "ok" => runtimeInfo.viewportSize = OldSize(fr)
                          /\ t[i].status # "ok" => i = Len(t)
                    /\ t[i].rpc = DeviceMetrics =>
                          /\ t[i].args = DeviceMetricsArgs(fr)
                          /\ runtimeInfo.viewportSize = NewSize(fr)
                          /\ ~runtimeInfo.config.headless =>
                                 (i > 1 /\ t[i - 1].rpc = OSResize /\ t[i - 1].status = "ok")
                    /\ t[i].rpc = VisibleSize =>
                          /\ t[i].args = NewSize(fr)
                          /\ i > 1 /\ t[i - 1].rpc = DeviceMetrics /\ t[i - 1].status = "ok"

\* A resizeWindow to another size, in a session with a window, awaits the
\* visible-size override.
C8_Witness ==
    /\ frames[1].op = "resizeWindow"
    /\ frames[1].pc = "setVisibleSize"
    /\ ~runtimeInfo.config.headless
    /\ NewSize(frames[1]) # OldSize(frames[1])

(***************************************************************************)
(* C9                                                                      *)
(***************************************************************************)
\* C9: in a headless session no call ever asks for an OS resize, the
\* resizeWindow of createClient included; resizeWindow still sets
\* viewportSize to the dimensions asked for and, with emulation and a client,
\* still asks for the device-metrics override with them.
C9_HeadlessNeverResizesWindow ==
    runtimeInfo.config.headless =>
        \A p \in Procs :
            /\ ~Asked(frames[p], OSResize)
            /\ frames[p].op = "resizeWindow" =>
                  /\ \A key \in {"width", "height"} :
                         runtimeInfo.viewportSize[key] = Expected(frames[p], key)
                  /\ (runtimeInfo.config.emulation /\ runtimeInfo.client # Undefined) =>
                         \E i \in DOMAIN frames[p].trace :
                             /\ frames[p].trace[i].rpc = DeviceMetrics
                             /\ frames[p].trace[i].args.width = Expected(frames[p], "width")
                             /\ frames[p].trace[i].args.height = Expected(frames[p], "height")
            /\ (frames[p].op = "createClient" /\ Returned(frames[p])
                    /\ Answered(frames[p], Connect, "ok") /\ runtimeInfo.config.emulation) =>
                   Answered(frames[p], DeviceMetrics, "ok")

\* A headless session with emulation has completed a resizeWindow of the
\* height alone, to another height.
C9_Witness ==
    /\ runtimeInfo.config.headless
    /\ runtimeInfo.config.emulation
    /\ frames[1].op = "resizeWindow"
    /\ Returned(frames[1])
    /\ DOMAIN frames[1].newDimensions = {"height"}
    /\ frames[1].newDimensions.height \notin {0, frames[1].pre.viewportSize.height}
    /\ Answered(frames[1], VisibleSize, "ok")

(***************************************************************************)
(* C10                                                                     *)
(***************************************************************************)
\* C10 as stated: isHeadlessTab returns the boolean true when a tab is set
\* and config.headless is true, and the boolean false in every other case.
C10_AlwaysBoolean ==
    \A p \in Procs :
        (frames[p].op = "isHeadlessTab" /\ Over(frames[p])) =>
            /\ Returned(frames[p])
            /\ frames[p].result.value =
                   JSBool(runtimeInfo.tab # Undefined /\ runtimeInfo.config.headless)

\* C10 amended: isHeadlessTab returns true exactly when a tab is set and
\* config.headless is true; it returns false when a tab is set and
\* config.headless is false, and undefined, not false, when no tab is set; it
\* changes no state.
C10_TrueIffTabAndHeadless ==
    \A p \in Procs :
        (frames[p].op = "isHeadlessTab" /\ Over(frames[p])) =>
            /\ Returned(frames[p])
            /\ frames[p].result.value = JSBool(TRUE) <=>
                   (runtimeInfo.tab # Undefined /\ runtimeInfo.config.headless)
            /\ frames[p].result.value = JSBool(FALSE) <=>
                   (runtimeInfo.tab # Undefined /\ ~runtimeInfo.config.headless)
            /\ frames[p].result.value = Undefined <=> runtimeInfo.tab = Undefined
            /\ runtimeInfo = frames[p].pre
            /\ frames[p].trace = <<>>

\* isHeadlessTab has returned true.
C10_Witness ==
    /\ frames[1].op = "isHeadlessTab"
    /\ Over(frames[1])
    /\ frames[1].result.value = JSBool(TRUE)
    /\ runtimeInfo.tab # Undefined

(***************************************************************************)
(* C11                                                                     *)
(***************************************************************************)
\* marker occurs in url as a substring.
Contains(url, marker) ==
    \E before \in 0..Len(url) :
        /\ before + Len(marker) <= Len(url)
        /\ \A k \in 1..Len(marker) : url[before + k] = marker[k]

\* The positions of the tabs of a list that are pages of the session.
MatchingPositions(tabs, marker) ==
    {i \in DOMAIN tabs : tabs[i].type = "page" /\ Contains(tabs[i].url, marker)}

\* C11: for every list of tabs, getActiveTab returns the first tab in listing
\* order whose type is "page" and whose url contains the marker, and undefined
\* when the list is empty or holds no such tab; the result is a function of
\* the list and the marker.
C11_FirstMatchingPage ==
    \A p \in Procs :
        (frames[p].op = "getActiveTab" /\ Returned(frames[p])) =>
            LET tabs  == frames[p].tabs
                found == MatchingPositions(tabs, runtimeInfo.browserId)
            IN  /\ found = {} => frames[p].result.value = Undefined
                /\ found # {} =>
                       \E i \in found :
                           /\ \A j \in found : i <= j
                           /\ frames[p].result.value = tabs[i]
                /\ runtimeInfo = frames[p].pre

\* A list of two different pages of the session: the first is returned.
C11_Witness ==
    /\ frames[1].op = "getActiveTab"
    /\ Returned(frames[1])
    /\ Cardinality(MatchingPositions(frames[1].tabs, runtimeInfo.browserId)) > 1
    /\ frames[1].tabs[1].url # frames[1].tabs[2].url
    /\ frames[1].result.value = frames[1].tabs[1]

(***************************************************************************)
(* C12                                                                     *)
(***************************************************************************)
UserAgent == "Network.setUserAgentOverride"
Touch     == "Emulation.setTouchEmulationEnabled"

\* The RPCs of the emulation.
EmulationRPCs == {UserAgent, Touch, DeviceMetrics, VisibleSize}

\* The positions in the trace of frame fr where rpc was asked.
Positions(fr, rpc) == {i \in DOMAIN fr.trace : fr.trace[i].rpc = rpc}

\* C12: setEmulation runs at most once per createClient, after the channel is
\* open and both domains are enabled, and only with config.emulation; without
\* config.emulation no call, createClient or resizeWindow, ever asks for a
\* user-agent, touch, device-metrics or visible-size override.
C12_EmulationOnlyIfConfigured ==
    \A p \in Procs :
        LET t == frames[p].trace
        IN  /\ ~runtimeInfo.config.emulation =>
                   \A i \in DOMAIN t : t[i].rpc \notin EmulationRPCs
            /\ \A rpc \in EmulationRPCs : Cardinality(Positions(frames[p], rpc)) <= 1
            /\ frames[p].op = "createClient" =>
                   \A i \in DOMAIN t :
                       t[i].rpc \in EmulationRPCs =>
                           /\ i > 4
                           /\ t[2].rpc = Connect /\ t[2].status = "ok"
                           /\ t[3].rpc = "Page.enable" /\ t[3].status = "ok"
                           /\ t[4].rpc = "Network.enable" /\ t[4].status = "ok"
            /\ (frames[p].op = "createClient" /\ Returned(frames[p])
                    /\ Answered(frames[p], Connect, "ok") /\ runtimeInfo.config.emulation) =>
                   /\ Answered(frames[p], DeviceMetrics, "ok")
                   /\ Has(runtimeInfo.config, "userAgent") <=> Answered(frames[p], UserAgent, "ok")
                   /\ Has(runtimeInfo.config, "touch") <=> Answered(frames[p], Touch, "ok")

\* A connected session without emulation, whose configuration names a user
\* agent and touch, has completed a resizeWindow.
C12_Witness ==
    /\ ~runtimeInfo.config.emulation
    /\ Has(runtimeInfo.config, "userAgent")
    /\ Has(runtimeInfo.config, "touch")
    /\ runtimeInfo.client # Undefined
    /\ frames[1].op = "resizeWindow"
    /\ Returned(frames[1])

(***************************************************************************)
(* C13                                                                     *)
(***************************************************************************)
\* createClient has opened the channel, applied the emulation and returned.
ConnectedWithEmulation(fr) ==
    /\ fr.op = "createClient"
    /\ Returned(fr)
    /\ Answered(fr, Connect, "ok")
    /\ runtimeInfo.config.emulation

\* The device-metrics and the visible-size override asked by the call of
\* frame fr both carry this width and height.
OverridesCarry(fr, width, height) ==
    \A i \in DOMAIN fr.trace :
        fr.trace[i].rpc \in {DeviceMetrics, VisibleSize} =>
            (fr.trace[i].args.width = width /\ fr.trace[i].args.height = height)

\* C13 as stated: after a successful createClient with emulation,
\* viewportSize is (config.width, config.height) and both overrides of the
\* connect carry exactly these, whatever viewportSize was before.
C13_InitialSizeIsConfigured ==
    \A p \in Procs :
        ConnectedWithEmulation(frames[p]) =>
            /\ Has(runtimeInfo.config, "width") /\ Has(runtimeInfo.config, "height")
            /\ runtimeInfo.viewportSize.width = runtimeInfo.config.width
            /\ runtimeInfo.viewportSize.height = runtimeInfo.config.height
            /\ OverridesCarry(frames[p], runtimeInfo.config.width, runtimeInfo.config.height)

\* The initial value of dimension key: the configured one unless it is unset
\* or 0, and then the one viewportSize held before the connect.
InitialTarget(fr, key) ==
    IF key \in DOMAIN runtimeInfo.config /\ runtimeInfo.config[key] # 0
        THEN runtimeInfo.config[key]
        ELSE fr.pre.viewportSize[key]

\* C13 amended: after a successful createClient with emulation, each
\* dimension of viewportSize is the configured one when config sets it to a
\* value other than 0, and otherwise what viewportSize held before the
\* connect; both overrides of the connect carry exactly that size.
C13_InitialSizeIsConfiguredOrKept ==
    \A p \in Procs :
        ConnectedWithEmulation(frames[p]) =>
            /\ runtimeInfo.viewportSize.width = InitialTarget(frames[p], "width")
            /\ runtimeInfo.viewportSize.height = InitialTarget(frames[p], "height")
            /\ Answered(frames[p], DeviceMetrics, "ok")
            /\ Answered(frames[p], VisibleSize, "ok")
            /\ OverridesCarry(frames[p], InitialTarget(frames[p], "width"),
                              InitialTarget(frames[p], "height"))

\* A connect has replaced both dimensions by the configured ones.
C13_Witness ==
    /\ ConnectedWithEmulation(frames[1])
    /\ Has(runtimeInfo.config, "width")
    /\ runtimeInfo.viewportSize.width = runtimeInfo.config.width
    /\ runtimeInfo.viewportSize.height = runtimeInfo.config.height
    /\ runtimeInfo.viewportSize.width # frames[1].pre.viewportSize.width
    /\ runtimeInfo.viewportSize.height # frames[1].pre.viewportSize.height

(***************************************************************************)
(* C14                                                                     *)
(***************************************************************************)
\* C14: no call changes config; the user-agent and the touch override are
\* asked by createClient alone, with the configured values, never by
\* resizeWindow; every device-metrics override carries config.scaleFactor,
\* config.mobile and fitWindow false.
C14_EmulationStateWriteOnce ==
    \A p \in Procs :
        LET t == frames[p].trace
        IN  /\ frames[p].op # "none" => runtimeInfo.config = frames[p].pre.config
            /\ \A i \in DOMAIN t :
                  /\ t[i].rpc \in {UserAgent, Touch} => frames[p].op = "createClient"
                  /\ t[i].rpc = UserAgent =>
                         t[i].args = [userAgent |-> runtimeInfo.config.userAgent]
                  /\ t[i].rpc = Touch =>
                         /\ t[i].args.enabled = runtimeInfo.config.touch
                         /\ t[i].args.configuration = "mobile" <=> runtimeInfo.config.mobile
                  /\ t[i].rpc = DeviceMetrics =>
                         /\ t[i].args.deviceScaleFactor = runtimeInfo.config.scaleFactor
                         /\ t[i].args.mobile = runtimeInfo.config.mobile
                         /\ t[i].args.fitWindow = FALSE

\* A resizeWindow of a session that emulates a mobile device has pushed its
\* device-metrics override.
C14_Witness ==
    /\ frames[1].op = "resizeWindow"
    /\ runtimeInfo.config.mobile
    /\ Has(runtimeInfo.config, "touch")
    /\ Answered(frames[1], DeviceMetrics, "ok")
    /\ NewSize(frames[1]) # OldSize(frames[1])

(***************************************************************************)
(* C15                                                                     *)
(***************************************************************************)
\* C15 as stated: once runtimeInfo.tab is set no call changes it, a repeated
\* createClient included, and no call changes browserId or cdpPort.
C15_TabNeverReassigned ==
    \A p \in Procs :
        frames[p].op # "none" =>
            /\ frames[p].pre.tab # Undefined => runtimeInfo.tab = frames[p].pre.tab
            /\ runtimeInfo.browserId = frames[p].pre.browserId
            /\ runtimeInfo.cdpPort = frames[p].pre.cdpPort

\* C15 amended: once runtimeInfo.tab is set, resizeWindow, takeScreenshot,
\* closeTab and isHeadlessTab never change it; a repeated createClient whose
\* connection succeeds assigns it again, to the tab it has resolved, which
\* may be another one; no call changes browserId or cdpPort.
C15_TabReassignedOnlyByConnect ==
    \A p \in Procs :
        frames[p].op # "none" =>
            /\ runtimeInfo.tab # frames[p].pre.tab =>
                  /\ frames[p].op = "createClient"
                  /\ Answered(frames[p], Connect, "ok")
                  /\ runtimeInfo.tab = frames[p].tab
            /\ (frames[p].op = "createClient" /\ Answered(frames[p], Connect, "ok")) =>
                   runtimeInfo.tab = frames[p].tab
            /\ runtimeInfo.browserId = frames[p].pre.browserId
            /\ runtimeInfo.cdpPort = frames[p].pre.cdpPort

\* A repeated createClient has replaced the tab of the session by another.
C15_Witness ==
    /\ frames[1].op = "createClient"
    /\ frames[1].pre.tab # Undefined
    /\ runtimeInfo.tab # frames[1].pre.tab
    /\ runtimeInfo.tab.id # frames[1].pre.tab.id

(***************************************************************************)
(* C16                                                                     *)
(***************************************************************************)
\* The overrides setEmulation is to apply under the configuration.
ConfiguredOverrides ==
    {DeviceMetrics, VisibleSize}
        \cup (IF Has(runtimeInfo.config, "userAgent") THEN {UserAgent} ELSE {})
        \cup (IF Has(runtimeInfo.config, "touch") THEN {Touch} ELSE {})

\* An override of the connect of frame fr has failed.
OverrideFailed(fr) ==
    /\ fr.op = "createClient"
    /\ \E rpc \in EmulationRPCs : Answered(fr, rpc, "failed")

\* The place of an override in the order setEmulation applies them in.
OverrideRank(rpc) ==
    CASE rpc = UserAgent     -> 1
      [] rpc = Touch         -> 2
      [] rpc = DeviceMetrics -> 3
      [] rpc = VisibleSize   -> 4

\* C16 as stated: when an override of the connect fails, createClient
\* reports the failure, and the remaining overrides are attempted all the
\* same.
C16_OverridesIndependent ==
    \A p \in Procs :
        (OverrideFailed(frames[p]) /\ Over(frames[p])) =>
            /\ Threw(frames[p])
            /\ \A rpc \in ConfiguredOverrides : Asked(frames[p], rpc)

\* C16 amended: when an override of the connect fails, createClient rejects
\* with the failure at once: the overrides already applied stay applied
\* (nothing is asked after the failed one, so none is undone), and the
\* remaining overrides are not attempted.
C16_FailedOverrideEndsConnect ==
    \A p \in Procs :
        LET t == frames[p].trace
        IN  OverrideFailed(frames[p]) =>
                /\ Threw(frames[p])
                /\ t[Len(t)].rpc \in EmulationRPCs
                /\ t[Len(t)].status = "failed"
                /\ \A i \in 1..(Len(t) - 1) : t[i].status = "ok"
                /\ \A failed \in EmulationRPCs, later \in EmulationRPCs :
                       (Answered(frames[p], failed, "failed")
                            /\ OverrideRank(later) > OverrideRank(failed)) =>
                           ~Asked(frames[p], later)

\* The user-agent override of a connect was applied and its touch override
\* has failed.
C16_Witness ==
    /\ frames[1].op = "createClient"
    /\ Answered(frames[1], UserAgent, "ok")
    /\ Answered(frames[1], Touch, "failed")
    /\ ~Asked(frames[1], DeviceMetrics)

(***************************************************************************)
(* C17                                                                     *)
(***************************************************************************)
Capture   == "Page.captureScreenshot"
WriteFile == "writeFile"

\* C17: a takeScreenshot on a channel asks for exactly one capture, first,
\* with fromSurface equal to config.headless; the file is written only after
\* the capture has succeeded; a failed capture ends the call with the
\* failure, with no file written and no second capture; the call changes
\* neither viewportSize nor client nor tab.
C17_CaptureThenWrite ==
    \A p \in Procs :
        LET t == frames[p].trace
        IN  frames[p].op = "takeScreenshot" =>
              /\ runtimeInfo = frames[p].pre
              /\ \A i \in DOMAIN t : t[i].rpc \in {Capture, WriteFile}
              /\ frames[p].pre.client # Undefined =>
                    /\ Positions(frames[p], Capture) = {1}
                    /\ t[1].args = [fromSurface |-> runtimeInfo.config.headless]
              /\ \A i \in Positions(frames[p], WriteFile) :
                     i = 2 /\ t[1].rpc = Capture /\ t[1].status = "ok"
              /\ Answered(frames[p], Capture, "failed") =>
                     (Threw(frames[p]) /\ Len(t) = 1)
              /\ (Returned(frames[p])) => Answered(frames[p], WriteFile, "ok")

\* The capture of a takeScreenshot of a headless session has failed.
C17_Witness ==
    /\ frames[1].op = "takeScreenshot"
    /\ runtimeInfo.config.headless
    /\ Answered(frames[1], Capture, "failed")
    /\ Over(frames[1])

(***************************************************************************)
(* C19                                                                     *)
(***************************************************************************)
\* A createClient that opened the channel, or a resizeWindow, has returned in
\* a session with emulation.
CompletedWithEmulation(fr) ==
    /\ runtimeInfo.config.emulation
    /\ Returned(fr)
    /\ \/ fr.op = "resizeWindow"
       \/ fr.op = "createClient" /\ Answered(fr, Connect, "ok")

\* The last position in the trace of frame fr where rpc was asked.
LastPosition(fr, rpc) ==
    CHOOSE i \in Positions(fr, rpc) : \A j \in Positions(fr, rpc) : j <= i

\* C19: with emulation and calls made one at a time, after every createClient
\* that connected and every resizeWindow that returned, the latest
\* device-metrics override and the latest visible-size override carry exactly
\* viewportSize and have succeeded, and in a session with a window the latest
\* OS resize had the same size as its target.
C19_BothPathsSameTarget ==
    \A p \in Procs :
        LET fr == frames[p]
            t  == fr.trace
        IN  CompletedWithEmulation(fr) =>
              /\ Positions(fr, DeviceMetrics) # {}
              /\ Positions(fr, VisibleSize) # {}
              /\ LET dm == t[LastPosition(fr, DeviceMetrics)]
                     vs == t[LastPosition(fr, VisibleSize)]
                 IN  /\ dm.status = "ok" /\ vs.status = "ok"
                     /\ dm.args.width = runtimeInfo.viewportSize.width
                     /\ dm.args.height = runtimeInfo.viewportSize.height
                     /\ vs.args = runtimeInfo.viewportSize
              /\ ~runtimeInfo.config.headless =>
                    /\ Positions(fr, OSResize) # {}
                    /\ LET os == t[LastPosition(fr, OSResize)]
                       IN  /\ os.status = "ok"
                           /\ os.args.newWidth = runtimeInfo.viewportSize.width
                           /\ os.args.newHeight = runtimeInfo.viewportSize.height

\* A connect of a session with a window has changed viewportSize and told
\* both paths.
C19_Witness ==
    /\ CompletedWithEmulation(frames[1])
    /\ frames[1].op = "createClient"
    /\ ~runtimeInfo.config.headless
    /\ runtimeInfo.viewportSize # frames[1].pre.viewportSize

(***************************************************************************)
(* C18                                                                     *)
(***************************************************************************)
\* The size a resizeWindow(newDimensions) that runs alone makes of size.
Resized(newDimensions, size) ==
    [key \in {"width", "height"} |->
        IF key \in DOMAIN newDimensions /\ newDimensions[key] # 0
            THEN newDimensions[key]
            ELSE size[key]]

\* The resizeWindow calls of both callers have returned.
BothReturned ==
    \A p \in Procs : frames[p].op = "resizeWindow" /\ Returned(frames[p])

\* viewportSize is what the two calls give when one runs after the other, in
\* one of the two orders.  The size before both calls is the one the caller
\* that came first found; the other caller found that size or the size the
\* first call made of it, and in both cases its own call, run last, gives
\* the same result as from the size before both calls.
SerialResult ==
    \/ runtimeInfo.viewportSize =
           Resized(frames[2].newDimensions,
                   Resized(frames[1].newDimensions, frames[1].pre.viewportSize))
    \/ runtimeInfo.viewportSize =
           Resized(frames[1].newDimensions,
                   Resized(frames[2].newDimensions, frames[2].pre.viewportSize))

\* C18 as stated: after two overlapping resizeWindow calls viewportSize is the
\* result of the two calls run one after the other in some order.
C18_OverlappingResizesSerialize ==
    BothReturned => SerialResult

\* C18 amended: after two overlapping resizeWindow calls viewportSize is the
\* whole (newWidth, newHeight) of the call that assigned last, computed from
\* the size that call found when it was entered.  In a headless session, where
\* nothing is awaited between the read and the assignment, this is the result
\* of the two calls run one after the other; in a session with a window it
\* need not be: of a width-only and a height-only resize that overlap, one
\* may be lost.
C18_LastAssignmentWins ==
    BothReturned =>
        /\ \A p \in Procs :
               NewSize(frames[p]) =
                   Resized(frames[p].newDimensions, frames[p].pre.viewportSize)
        /\ \E p \in Procs : runtimeInfo.viewportSize = NewSize(frames[p])
        /\ runtimeInfo.config.headless => SerialResult

\* A width-only and a height-only resize have overlapped in a session with a
\* window, and the new width is lost.
C18_Witness ==
    /\ BothReturned
    /\ ~runtimeInfo.config.headless
    /\ DOMAIN frames[1].newDimensions = {"width"}
    /\ DOMAIN frames[2].newDimensions = {"height"}
    /\ frames[1].pre.viewportSize = frames[2].pre.viewportSize
    /\ frames[1].newDimensions.width \notin {0, frames[1].pre.viewportSize.width}
    /\ frames[2].newDimensions.height \notin {0, frames[2].pre.viewportSize.height}
    /\ runtimeInfo.viewportSize.width = frames[1].pre.viewportSize.width
    /\ runtimeInfo.viewportSize.height = frames[2].newDimensions.height

====
